---- MODULE Spec2Model ----
(***************************************************************************)
(* Model of speech/cloud-client/chip_voice_commander.py: the supervising   *)
(* loop of main(), the ResumableMicrophoneStream context manager with its  *)
(* capture callback and request generator, and listen_print_loop, the      *)
(* transcript-to-command interpreter.                                      *)
(*                                                                         *)
(* Threads: the main thread (pc), the PyAudio capture callback (Capture),  *)
(* and the threads that iterate a request generator (GenStep for the       *)
(* generator of the running session, ZombieStep for generators of sessions *)
(* that have ended, followed until main() replaces their stream object).   *)
(* The transcription service is the environment: it sends responses, ends  *)
(* the response stream, or fails.                                          *)
(* Time is a millisecond clock advanced by Tick.                           *)
(***************************************************************************)
EXTENDS Integers, Sequences, FiniteSets

(* ------------------------------ bounds --------------------------------- *)
\* Number of clock advances in one behaviour.
MaxTicks == 3
\* Chunks captured on one stream.
MaxChunks == 2
\* Generators of ended sessions still alive on the open stream.
MaxZombies == 1
\* Failed device opens in one behaviour.
MaxOpenFailures == 1
\* Messages that reach the listener, and polls of the listener.
MaxMsgs == 3
MaxPolls == 4

\* Clock advances, in milliseconds, while the interpreter is followed: the
\* repeat window is two of them.
SecondSteps == {1000}
\* Clock advances while the audio threads are followed: the streaming limit
\* is two of them.
LimitSteps == {27500}
\* Clock advances while commands are followed over session boundaries: half
\* a second, and one second more than the streaming limit.
CarrySteps == {500, 56000}

(* --------------------------- program constants ------------------------- *)
STREAMING_LIMIT == 55000
\* get_current_time(): milliseconds per second of time.time().
MsPerSec == 1000
\* "if (curr_command_ts - last_command_ts < 2)": seconds.
RepeatWindowSecs == 2
\* "if (command_idx < 6)": first index that is not a running command.
FirstStopIdx == 6
\* "self._buff = queue.Queue()": the default maxsize.
maxsize == 0

commands ==
  << <<"g","o"," ","s","h","o","r","t">>,
     <<"g","o"," ","m","e","d","i","u","m">>,
     <<"g","o"," ","l","o","n","g">>,
     <<"g","o"," ","s","l","o","w">>,
     <<"g","o"," ","f","a","s","t">>,
     <<"g","o"," ","r","u","n">>,
     <<"g","o"," ","m","a","n","u","a","l">>,
     <<"g","o"," ","s","t","o","p">>,
     <<"g","o"," ","a","u","t","o">>,
     <<"s","t","o","p">>,
     <<"h","a","l","t">> >>

\* Numbers are in tenths (speed 0.6 is 6, duration 7200.0 is 72000).
Move(speed, duration, distance) ==
  [kind |-> "move", speed |-> speed, duration |-> duration, distance |-> distance,
   terminate |-> 0]

Terminate ==
  [kind |-> "terminate", speed |-> 0, duration |-> 0, distance |-> 0, terminate |-> 1]

command_dicts ==
  << Move(10, 0, 5), Move(10, 0, 15), Move(10, 0, 25),
     Move(6, 72000, 0), Move(10, 72000, 0), Move(11, 72000, 0),
     Terminate,
     Move(0, 0, 0), Move(0, 0, 0), Move(0, 0, 0), Move(0, 0, 0) >>

(* ------------------------------ transcripts ---------------------------- *)
\* The transcripts the service may return (top alternative of the first result).
Transcripts ==
  << <<"g","o"," ","s","l","o","w">>,
     <<"G","o"," ","F","a","s","t">>,
     <<"g","o"," ","s","t","o","p">>,
     <<"h","a","l","t">>,
     <<"s","t","o","p","p","e","d">>,
     <<"q","u","i","t"," ","g","o"," ","f","a","s","t">>,
     <<"p","l","e","a","s","e"," ","e","x","i","t"," ","n","o","w">>,
     <<"e","x","i","t","s">> >>

TextIds == 1..Len(Transcripts)
\* The transcripts used while the supervising loop is followed.
SessionTextIds == {1, 7}
\* The transcript used while the audio threads are followed.
CloseTextIds == {7}
\* Stability in hundredths.
Stabilities == {0, 50}

UpperCase ==
  <<"A","B","C","D","E","F","G","H","I","J","K","L","M","N","O","P","Q","R","S","T","U","V","W","X","Y","Z">>
LowerCase ==
  <<"a","b","c","d","e","f","g","h","i","j","k","l","m","n","o","p","q","r","s","t","u","v","w","x","y","z">>
Digits == <<"0","1","2","3","4","5","6","7","8","9">>

Range(s) == {s[i] : i \in DOMAIN s}

\* re.I: compare letters without case.
Fold(c) ==
  IF \E i \in DOMAIN UpperCase : UpperCase[i] = c
    THEN LowerCase[CHOOSE i \in DOMAIN UpperCase : UpperCase[i] = c]
    ELSE c

\* \w of the regular expressions.
WordChar(c) == c \in Range(UpperCase) \cup Range(LowerCase) \cup Range(Digits) \cup {"_"}

\* Is position i (1..Len+1 would be "before character i") preceded resp. followed by \w.
WordAt(t, i) == i >= 1 /\ i <= Len(t) /\ WordChar(t[i])

\* \b between characters i-1 and i of t.
Boundary(t, i) == WordAt(t, i - 1) # WordAt(t, i)

\* re.search(r'\b(' + pat + r')\b', t, re.I) matching at position p.
MatchAt(pat, t, p) ==
  /\ p + Len(pat) - 1 <= Len(t)
  /\ \A k \in 1..Len(pat) : Fold(t[p + k - 1]) = Fold(pat[k])
  /\ Boundary(t, p)
  /\ Boundary(t, p + Len(pat))

ReSearch(pat, t) == \E p \in 1..Len(t) : MatchAt(pat, t, p)

\* ' %.2f' % stability, for stability in hundredths below 10.00.
StabilityStr(s) ==
  <<" ", Digits[(s \div 100) + 1], ".", Digits[((s \div 10) % 10) + 1], Digits[(s % 10) + 1]>>

FinalStr == <<" ","F","i","n","a","l">>

\* The test with >= for >.
AcceptAny(r) == r.stability >= 0 \/ r.is_final

\* accept of listen_print_loop.
Accept(r) == r.stability > 0 \/ r.is_final

\* The transcript as listen_print_loop extends it before printing and matching.
Shown(r) ==
  Transcripts[r.text]
    \o (IF r.stability > 0 THEN StabilityStr(r.stability) ELSE <<>>)
    \o (IF r.is_final THEN FinalStr ELSE <<>>)

\* The search for quit alone.
IsQuitOnly(t) == ReSearch(<<"q","u","i","t">>, t)

\* re.search(r'\b(exit|quit)\b', transcript, re.I)
IsQuit(t) == ReSearch(<<"e","x","i","t">>, t) \/ ReSearch(<<"q","u","i","t">>, t)

\* "for i in range(len(commands))" from i on, with command_idx = idx so far:
\* every hit overwrites command_idx.  Indices are the source's, from 0.
RECURSIVE ScanCommands(_, _, _)
ScanCommands(t, i, idx) ==
  IF i >= Len(commands)
    THEN idx
    ELSE ScanCommands(t, i + 1, IF ReSearch(commands[i + 1], t) THEN i ELSE idx)

\* The scan with a break at the first hit.
RECURSIVE ScanCommandsBreak(_, _, _)
ScanCommandsBreak(t, i, idx) ==
  IF i >= Len(commands)
    THEN idx
    ELSE IF ReSearch(commands[i + 1], t) THEN i ELSE ScanCommandsBreak(t, i + 1, idx)

CommandIdxFirst(t) == ScanCommandsBreak(t, 0, -1)

\* command_idx after the scan; -1 when nothing matches.
CommandIdx(t) == ScanCommands(t, 0, -1)

\* The window test with <= for <.
SendCommandInclusive(idx, ts, lastNum, lastTs) ==
  ~(lastNum = idx /\ idx < FirstStopIdx /\ ts - lastTs <= RepeatWindowSecs * MsPerSec)

\* The test without "command_idx < 6".
SendCommandNoClass(idx, ts, lastNum, lastTs) ==
  ~(lastNum = idx /\ ts - lastTs < RepeatWindowSecs * MsPerSec)

\* The test without "last_command_num == command_idx".
SendCommandAnyLast(idx, ts, lastNum, lastTs) ==
  ~(idx < FirstStopIdx /\ ts - lastTs < RepeatWindowSecs * MsPerSec)

\* send_command of listen_print_loop.
SendCommand(idx, ts, lastNum, lastTs) ==
  ~(lastNum = idx /\ idx < FirstStopIdx /\ ts - lastTs < RepeatWindowSecs * MsPerSec)

\* The payload published without the key around it.
VoiceMsgBare(idx) == command_dicts[idx + 1]

\* voice_msg = {}; voice_msg['handheld'] = command_dicts[command_idx]
VoiceMsg(idx) == [handheld |-> command_dicts[idx + 1]]

(* ------------------------------- state --------------------------------- *)
VARIABLES
  now,               \* wall clock, ms
  ticks,             \* clock advances so far
  pc,                \* main thread
  exc,               \* an exception is propagating out of the with block
  closed,            \* mic_manager.closed
  start_time,        \* mic_manager.start_time
  born,              \* when mic_manager was constructed
  reset_by,          \* whose generator set start_time last: "none", "session", "zombie"
  buff,              \* mic_manager._buff
  audio_stream,      \* "none", "active", "closed"
  audio_interface,   \* "none", "open", "terminated"
  leaked,            \* PyAudio instances of dropped streams never terminated
  nprod,             \* chunks captured on this stream
  fwd,               \* chunks sent to the service from this stream, in order
  gen,               \* request generator of the running session
  zombies,           \* generators of ended sessions on this stream
  last_command_ts,
  last_command_num,
  ev,                \* the response handled last, and the command state before it
  sent,              \* messages published while handling it
  sock_read,         \* chip_command_listener: messages waiting in the SUB socket
  received,          \* ... messages that have reached the socket, numbered 1, 2, ...
  polled,            \* ... value of received at the previous poll
  printed            \* ... what the polls printed: a message, or 0 for none

micVars == <<closed, start_time, born, reset_by, buff, audio_stream, audio_interface, leaked, nprod, fwd>>
genVars == <<gen, zombies>>
cmdVars == <<last_command_ts, last_command_num, ev, sent>>
lisVars == <<sock_read, received, polled, printed>>
progVars == <<now, ticks, pc, exc, micVars, genVars, cmdVars>>
vars == <<now, ticks, pc, exc, micVars, genVars, cmdVars, lisVars>>

\* The end sentinel of the queue (None); chunks are 1, 2, ...
None == 0
NoGen == [pc |-> "none", data |-> <<>>]
DoneGen == [pc |-> "done", data |-> <<>>]
NewGen == [pc |-> "check", data |-> <<>>]
NoEvent == [seq |-> 0, kind |-> "none", text |-> 1, is_final |-> FALSE, stability |-> 0,
            prev_num |-> -1, prev_ts |-> 0, at |-> 0]

get_current_time == now

Init ==
  /\ now = 0
  /\ ticks = 0
  /\ pc = "new"
  /\ exc = FALSE
  /\ closed = TRUE
  /\ start_time = 0
  /\ born = 0
  /\ reset_by = "none"
  /\ buff = <<>>
  /\ audio_stream = "none"
  /\ audio_interface = "none"
  /\ leaked = 0
  /\ nprod = 0
  /\ fwd = <<>>
  /\ gen = NoGen
  /\ zombies = <<>>
  /\ last_command_ts = 0
  /\ last_command_num = -1
  /\ ev = NoEvent
  /\ sent = <<>>
  /\ sock_read = <<>>
  /\ received = 0
  /\ polled = 0
  /\ printed = <<>>


Malformed ==
  { [kind |-> k, text |-> 1, is_final |-> FALSE, stability |-> 0] :
      k \in {"noresults", "noalternatives"} }

Responses(T, F, S) ==
  { [kind |-> "result", text |-> t, is_final |-> f, stability |-> s] :
      t \in T, f \in F, s \in S }

\* Every response of the catalogue, and what the two searches of
\* listen_print_loop find in it.
AllResponses == Malformed \cup Responses(TextIds, BOOLEAN, Stabilities)
quit_found == [r \in AllResponses |-> IsQuit(Shown(r))]
command_idx == [r \in AllResponses |-> CommandIdx(Shown(r))]

(* ------------------------- request generator --------------------------- *)
\* The break without the reset of start_time.
AfterLimitKeep(st) == st

\* "self.start_time = get_current_time()" before the break.
AfterLimit(st) == get_current_time

\* The batch yielded before the return.
AtSentinelFlush(data) == data

\* What the generator yields when it meets None while it fills a batch:
\* "return", and the chunks in data stay where they are.
AtSentinel(data) == <<>>

\* One step of ResumableMicrophoneStream.generator for a generator in state
\* g, on a stream whose queue is q, closed flag cl and start time st.  The
\* result gives the new generator state, queue and start time, the batch it
\* yields (<<>> when the step yields nothing), and whether it set start_time.
GenNext(g, q, cl, st) ==
  CASE g.pc = "check" ->
         IF cl
           THEN [g |-> DoneGen, q |-> q, st |-> st, out |-> <<>>, reset |-> FALSE]
           ELSE IF get_current_time - st > STREAMING_LIMIT
             THEN [g |-> DoneGen, q |-> q, st |-> AfterLimit(st), out |-> <<>>,
                   reset |-> TRUE]
             ELSE [g |-> [pc |-> "get", data |-> <<>>], q |-> q, st |-> st,
                   out |-> <<>>, reset |-> FALSE]
    [] g.pc = "get" ->
         IF Head(q) = None
           THEN [g |-> DoneGen, q |-> Tail(q), st |-> st, out |-> <<>>, reset |-> FALSE]
           ELSE [g |-> [pc |-> "drain", data |-> <<Head(q)>>], q |-> Tail(q),
                 st |-> st, out |-> <<>>, reset |-> FALSE]
    [] g.pc = "drain" ->
         IF q = <<>>
           THEN [g |-> NewGen, q |-> q, st |-> st, out |-> g.data, reset |-> FALSE]
           ELSE IF Head(q) = None
             THEN [g |-> [pc |-> "done", data |-> g.data], q |-> Tail(q), st |-> st,
                   out |-> AtSentinel(g.data), reset |-> FALSE]
             ELSE [g |-> [pc |-> "drain", data |-> Append(g.data, Head(q))],
                   q |-> Tail(q), st |-> st, out |-> <<>>, reset |-> FALSE]

\* The blocking get() waits for an item; every other step can always run.
GenEnabled(g, q) == g.pc \in {"check", "drain"} \/ (g.pc = "get" /\ q # <<>>)

RemoveAt(s, i) == SubSeq(s, 1, i - 1) \o SubSeq(s, i + 1, Len(s))

\* The generators left behind when the running session ends.
Retire == IF gen.pc \in {"none", "done"} THEN zombies ELSE Append(zombies, gen)

(* ------------------------------ main thread ---------------------------- *)
\* mic_manager = ResumableMicrophoneStream(SAMPLE_RATE, CHUNK_SIZE)
MainNew ==
  /\ pc = "new"
  /\ pc' = "enter"
  /\ closed' = TRUE
  /\ start_time' = get_current_time
  /\ born' = get_current_time
  /\ reset_by' = "none"
  /\ buff' = <<>>
  /\ audio_stream' = "none"
  /\ audio_interface' = "none"
  /\ leaked' = leaked + (IF audio_interface = "open" THEN 1 ELSE 0)
  /\ nprod' = 0
  /\ fwd' = <<>>
  /\ gen' = NoGen
  /\ zombies' = <<>>
  /\ UNCHANGED <<lisVars, now, ticks, exc, cmdVars>>

\* __enter__, the device opens.
EnterOk ==
  /\ pc = "enter"
  /\ closed' = FALSE
  /\ audio_interface' = "open"
  /\ audio_stream' = "active"
  /\ pc' = "loop"
  /\ UNCHANGED <<lisVars, now, ticks, exc, start_time, born, reset_by, buff, leaked, nprod, fwd, genVars, cmdVars>>

\* __enter__, PyAudio() succeeds and open() raises: __exit__ is not run.
EnterFailOpen ==
  /\ pc = "enter"
  /\ leaked < MaxOpenFailures
  /\ closed' = FALSE
  /\ audio_interface' = "open"
  /\ exc' = TRUE
  /\ pc' = "except"
  /\ UNCHANGED <<lisVars, now, ticks, start_time, born, reset_by, buff, audio_stream, leaked, nprod, fwd,
                 genVars, cmdVars>>

\* "while not stream.closed" is false: the with block ends, __exit__ runs.
LoopExit ==
  /\ pc = "loop"
  /\ closed
  /\ pc' = "exit_stop"
  /\ UNCHANGED <<lisVars, now, ticks, exc, micVars, genVars, cmdVars>>

\* A session that starts with the command state of a fresh process.
StartSessionFresh ==
  /\ pc = "loop"
  /\ ~closed
  /\ gen' = NewGen
  /\ pc' = "listen"
  /\ last_command_ts' = 0
  /\ last_command_num' = -1
  /\ UNCHANGED <<lisVars, now, ticks, exc, micVars, zombies, ev, sent>>

\* "while not stream.closed" is true: a new generator and a new call.
StartSession ==
  /\ pc = "loop"
  /\ ~closed
  /\ gen' = NewGen
  /\ pc' = "listen"
  /\ UNCHANGED <<lisVars, now, ticks, exc, micVars, zombies, cmdVars>>

\* __exit__: stop_stream(), close().
ExitStop ==
  /\ pc = "exit_stop"
  /\ audio_stream' = "closed"
  /\ pc' = "exit_signal"
  /\ UNCHANGED <<lisVars, now, ticks, exc, closed, start_time, born, reset_by, buff, audio_interface, leaked,
                 nprod, fwd, genVars, cmdVars>>

\* __exit__: closed = True, _buff.put(None).
ExitSignal ==
  /\ pc = "exit_signal"
  /\ closed' = TRUE
  /\ buff' = Append(buff, None)
  /\ pc' = "exit_term"
  /\ UNCHANGED <<lisVars, now, ticks, exc, start_time, born, reset_by, audio_stream, audio_interface, leaked,
                 nprod, fwd, genVars, cmdVars>>

\* Where main() continues after __exit__.
AfterExit == IF exc THEN "except" ELSE "new"

\* __exit__: _audio_interface.terminate().
ExitTerminate ==
  /\ pc = "exit_term"
  /\ audio_interface' = "terminated"
  /\ pc' = AfterExit
  /\ UNCHANGED <<lisVars, now, ticks, exc, closed, start_time, born, reset_by, buff, audio_stream, leaked,
                 nprod, fwd, genVars, cmdVars>>

\* The handler ending the loop.
AfterExceptStop == "stopped"

\* Where main() continues after "except Exception".
AfterExcept == "new"

\* except Exception as inst: print, and around the while (True) again.
Except ==
  /\ pc = "except"
  /\ exc' = FALSE
  /\ pc' = AfterExcept
  /\ UNCHANGED <<lisVars, now, ticks, micVars, genVars, cmdVars>>

(* --------------------------- listen_print_loop ------------------------- *)
\* The record kept of the response handled last: the response, a bit that
\* flips with every response, last_command_num and last_command_ts as they
\* were when its handling began, and the time of its handling.
Handled(r) == [seq |-> 1 - ev.seq, kind |-> r.kind, text |-> r.text,
               is_final |-> r.is_final, stability |-> r.stability,
               prev_num |-> last_command_num, prev_ts |-> last_command_ts,
               at |-> now]

\* No response is passed over.
SkippedNone(r) == FALSE

\* The filter of the responses and the two "continue" tests: a response
\* without results, or whose first result has no alternatives, is passed over.
Skipped(r) == r.kind \in {"noresults", "noalternatives"}

\* "last_command_ts = curr_command_ts" taken for every match.
CommandTsAlways(idx, send, ts, lastTs) == IF idx > -1 THEN ts ELSE lastTs

\* last_command_ts after an accepted response without exit or quit: set
\* under "if (send_command)" only.
CommandTsAfter(idx, send, ts, lastTs) == IF idx > -1 /\ send THEN ts ELSE lastTs

\* The body of "for response in responses" for one response r.  A response
\* without results that reached "response.results[0]" would raise.  After
\* the break on exit or quit the call of the session is still open and its
\* request generator goes on.
listen_print_loop(r) ==
  /\ pc = "listen"
  /\ ev' = Handled(r)
  /\ IF Skipped(r) \/ (r.kind = "result" /\ ~Accept(r))
       THEN /\ sent' = <<>>
            /\ UNCHANGED <<pc, exc, closed, gen, zombies, last_command_ts, last_command_num>>
       ELSE IF r.kind # "result"
         THEN /\ exc' = TRUE
              /\ pc' = "exit_stop"
              /\ zombies' = Retire
              /\ gen' = NoGen
              /\ sent' = <<>>
              /\ UNCHANGED <<closed, last_command_ts, last_command_num>>
         ELSE IF quit_found[r]
           THEN /\ closed' = TRUE
                /\ pc' = "loop"
                /\ sent' = <<>>
                /\ UNCHANGED <<exc, gen, zombies, last_command_ts, last_command_num>>
           ELSE LET idx == command_idx[r]
                    curr_command_ts == now
                    send_command == SendCommand(idx, curr_command_ts,
                                                last_command_num, last_command_ts)
                IN /\ sent' = IF idx > -1 /\ send_command THEN <<VoiceMsg(idx)>> ELSE <<>>
                   /\ last_command_ts' = CommandTsAfter(idx, send_command, curr_command_ts,
                                                        last_command_ts)
                   /\ last_command_num' = IF idx > -1 /\ send_command
                                            THEN idx ELSE last_command_num
                   /\ UNCHANGED <<pc, exc, closed, gen, zombies>>
  /\ UNCHANGED <<lisVars, now, ticks, start_time, born, reset_by, buff, audio_stream, audio_interface,
                 leaked, nprod, fwd>>

\* The service sends a response.
Respond(R) == \E r \in R : listen_print_loop(r)

\* The request generator has ended, the service ends the response stream and
\* listen_print_loop returns.
ResponsesEnd ==
  /\ pc = "listen"
  /\ gen.pc = "done"
  /\ gen' = NoGen
  /\ pc' = "loop"
  /\ UNCHANGED <<lisVars, now, ticks, exc, micVars, zombies, cmdVars>>

\* The service ends the response stream while the request generator is running.
EarlyEnd ==
  /\ pc = "listen"
  /\ gen.pc # "done"
  /\ Len(zombies) < MaxZombies
  /\ zombies' = Retire
  /\ gen' = NoGen
  /\ pc' = "loop"
  /\ UNCHANGED <<lisVars, now, ticks, exc, micVars, cmdVars>>

\* The call fails: listen_print_loop prints and re-raises, __exit__ runs.
CollabError ==
  /\ pc = "listen"
  /\ exc' = TRUE
  /\ zombies' = Retire
  /\ gen' = NoGen
  /\ pc' = "exit_stop"
  /\ UNCHANGED <<lisVars, now, ticks, micVars, cmdVars>>

(* ------------------------------ audio threads -------------------------- *)
\* Queue.put waits while the queue is full; a queue of maxsize 0 never is.
Full(q) == maxsize > 0 /\ Len(q) >= maxsize

\* _fill_buffer, called by the audio stream while it is active.
Capture ==
  /\ audio_stream = "active"
  /\ nprod < MaxChunks
  /\ ~Full(buff)
  /\ nprod' = nprod + 1
  /\ buff' = Append(buff, nprod')
  /\ UNCHANGED <<lisVars, now, ticks, pc, exc, closed, start_time, born, reset_by, audio_stream, audio_interface,
                 leaked, fwd, genVars, cmdVars>>

\* The generator of the running session; what it yields goes to the service.
GenStep ==
  /\ GenEnabled(gen, buff)
  /\ LET n == GenNext(gen, buff, closed, start_time)
     IN /\ gen' = n.g
        /\ buff' = n.q
        /\ start_time' = n.st
        /\ reset_by' = IF n.reset THEN "session" ELSE reset_by
        /\ fwd' = fwd \o n.out
  /\ UNCHANGED <<lisVars, now, ticks, pc, exc, closed, born, audio_stream, audio_interface, leaked,
                 nprod, zombies, cmdVars>>

\* A generator whose call has ended: it runs to its next yield, and what it
\* yields goes nowhere.
ZombieStep ==
  \E i \in DOMAIN zombies :
    /\ GenEnabled(zombies[i], buff)
    /\ LET n == GenNext(zombies[i], buff, closed, start_time)
       IN /\ zombies' = IF n.g.pc = "done" \/ n.out # <<>>
                          THEN RemoveAt(zombies, i)
                          ELSE [zombies EXCEPT ![i] = n.g]
          /\ buff' = n.q
          /\ start_time' = n.st
          /\ reset_by' = IF n.reset THEN "zombie" ELSE reset_by
    /\ UNCHANGED <<lisVars, now, ticks, pc, exc, closed, born, audio_stream, audio_interface, leaked,
                   nprod, fwd, gen, cmdVars>>

\* The clock advances by one of the steps of S.
Tick(S) ==
  /\ ticks < MaxTicks
  /\ \E d \in S : now' = now + d
  /\ ticks' = ticks + 1
  /\ UNCHANGED <<lisVars, pc, exc, micVars, genVars, cmdVars>>

(* ------------------------- chip_command_listener ----------------------- *)
\* A socket that queues every message.
Enqueue(q, m) == Append(q, m)

\* setsockopt(zmq.CONFLATE, 1): the socket keeps the last message only.
Conflate(q, m) == <<m>>

\* "No message received yet"
NoMessage == 0

\* A published message reaches the SUB socket.
Receive ==
  /\ received < MaxMsgs
  /\ received' = received + 1
  /\ sock_read' = Conflate(sock_read, received')
  /\ UNCHANGED <<progVars, polled, printed>>

\* One turn of the listener's loop: recv(zmq.NOBLOCK) and the print, or
\* zmq.Again and the other print; then sleep(1).
Poll ==
  /\ Len(printed) < MaxPolls
  /\ IF sock_read = <<>>
       THEN /\ printed' = Append(printed, NoMessage)
            /\ UNCHANGED sock_read
       ELSE /\ printed' = Append(printed, Head(sock_read))
            /\ sock_read' = Tail(sock_read)
  /\ polled' = received
  /\ UNCHANGED <<progVars, received>>

(* ---------------------------- specifications --------------------------- *)
\* The steps of the main thread that are the program's own.
MainStep ==
  \/ MainNew
  \/ EnterOk
  \/ LoopExit
  \/ StartSession
  \/ ExitStop
  \/ ExitSignal
  \/ ExitTerminate
  \/ Except

\* The supervising loop of main(): the main thread, with device and call
\* failures, and a service that sends a command, asks to quit, or ends the
\* response stream.
Next ==
  \/ MainStep
  \/ EnterFailOpen
  \/ Respond(Responses(SessionTextIds, {TRUE}, {0}))
  \/ EarlyEnd
  \/ CollabError
  \/ Tick(SecondSteps)

Spec == Init /\ [][Next]_vars

\* The main thread keeps running.
FairSpec == Spec /\ WF_vars(MainStep)

\* listen_print_loop on every response of the catalogue, in the main thread
\* without failures.  The audio threads write none of the variables that
\* listen_print_loop reads.
NextInterp ==
  \/ MainNew
  \/ EnterOk
  \/ LoopExit
  \/ StartSession
  \/ ExitStop
  \/ ExitSignal
  \/ ExitTerminate
  \/ Respond(AllResponses)
  \/ EarlyEnd
  \/ Tick(SecondSteps)

SpecInterp == Init /\ [][NextInterp]_vars

\* The main thread with the capture callback and the request generators.
NextAudio ==
  \/ MainStep
  \/ Respond(Responses(CloseTextIds, {TRUE}, {0}))
  \/ ResponsesEnd
  \/ EarlyEnd
  \/ CollabError
  \/ Capture
  \/ GenStep
  \/ ZombieStep
  \/ Tick(LimitSteps)

SpecAudio == Init /\ [][NextAudio]_vars

\* The main thread, the capture callback and the thread of the running
\* session's generator keep running, and the service ends the response
\* stream of a call whose requests have ended.
FairAudio ==
  /\ SpecAudio
  /\ WF_vars(MainStep)
  /\ WF_vars(Capture)
  /\ WF_vars(GenStep)
  /\ WF_vars(ResponsesEnd)

\* The audio threads while nobody asks to quit: sessions end by the
\* streaming limit, by the service ending the response stream, or by a
\* failed call.
NextRollover ==
  \/ MainNew
  \/ EnterOk
  \/ StartSession
  \/ ExitStop
  \/ ExitSignal
  \/ ExitTerminate
  \/ Except
  \/ ResponsesEnd
  \/ EarlyEnd
  \/ CollabError
  \/ Capture
  \/ GenStep
  \/ ZombieStep
  \/ Tick(LimitSteps)

SpecRollover == Init /\ [][NextRollover]_vars

\* The same threads keep running as in FairAudio.
FairRollover ==
  /\ SpecRollover
  /\ WF_vars(MainStep)
  /\ WF_vars(Capture)
  /\ WF_vars(GenStep)
  /\ WF_vars(ResponsesEnd)

\* Sessions that end by the streaming limit or by a failed call, with a
\* service that returns the final transcript "go slow": every new stream
\* object follows an error.
NextCarry ==
  \/ MainNew
  \/ EnterOk
  \/ StartSession
  \/ ExitStop
  \/ ExitSignal
  \/ ExitTerminate
  \/ Except
  \/ Respond(Responses({1}, {TRUE}, {0}))
  \/ ResponsesEnd
  \/ CollabError
  \/ GenStep
  \/ Tick(CarrySteps)

SpecCarry == Init /\ [][NextCarry]_vars

\* chip_command_listener with messages arriving between its polls.
NextListener ==
  \/ Receive
  \/ Poll

SpecListener == Init /\ [][NextListener]_vars

(* ------------------------------- properties ---------------------------- *)
\* What a transcript holds, as the service sent it: the whole word exit or
\* quit, and the highest index of a phrase of the vocabulary it holds as
\* whole words (-1 when it holds none).
text_quit ==
  [t \in TextIds |-> \E w \in {<<"e","x","i","t">>, <<"q","u","i","t">>} :
                        ReSearch(w, Transcripts[t])]
text_phrases ==
  [t \in TextIds |-> {i \in 0..(Len(commands) - 1) : ReSearch(commands[i + 1], Transcripts[t])}]
text_idx ==
  [t \in TextIds |->
     IF text_phrases[t] = {} THEN -1
     ELSE CHOOSE i \in text_phrases[t] : \A j \in text_phrases[t] : j <= i]

\* The step handles a response.
Handling == ev'.seq # ev.seq

\* The response handled last was an accepted event (is_final, or stability
\* above 0).
Accepted == ev.kind = "result" /\ (ev.is_final \/ ev.stability > 0)

\* ... whose text held the whole word exit or quit.
QuitHandled == Accepted /\ text_quit[ev.text]

\* ... whose text held no such word, and a phrase of the vocabulary.
Matched == Accepted /\ ~text_quit[ev.text] /\ text_idx[ev.text] > -1

MatchedIdx == text_idx[ev.text]

\* C1: after a close request (an accepted transcript with the whole word exit
\* or quit) the supervisor is stopped for good: the stream is released, no new
\* stream object is entered and no new session is started.
C1_StoppedAfterQuit == QuitHandled => pc \notin {"enter", "listen"}

\* C2: a running command (index below 6) matched again while it is the last
\* command published is not published when less than 2.0 s have passed since
\* that publication, and is published when 2.0 s or more have passed.
C2_RepeatSuppression ==
  [][(Handling /\ Matched' /\ MatchedIdx' < 6 /\ MatchedIdx' = last_command_num)
       => IF now - last_command_ts < 2 * MsPerSec
            THEN sent' = <<>>
            ELSE sent' = <<VoiceMsg(MatchedIdx')>>]_vars

\* A running command was matched one second after its publication and was
\* not published.
C2_Witness ==
  /\ Matched
  /\ MatchedIdx < 6
  /\ ev.prev_num = MatchedIdx
  /\ sent = <<>>
  /\ ev.at - ev.prev_ts = MsPerSec
  /\ last_command_ts = ev.prev_ts

\* C3: a command of index 6 or more matched in an accepted response is
\* published, whatever last_command_num and the time since the last
\* publication are.
C3_StopAlwaysPublished ==
  (Matched /\ MatchedIdx >= 6)
    => (sent = <<VoiceMsg(MatchedIdx)>> /\ last_command_num = MatchedIdx)

\* A stop command was published while it was itself the last command
\* published, less than 2.0 s before.
C3_Witness ==
  /\ Matched
  /\ MatchedIdx >= 6
  /\ ev.prev_num = MatchedIdx
  /\ ev.at - ev.prev_ts < 2 * MsPerSec
  /\ sent = <<VoiceMsg(MatchedIdx)>>

\* The match of the step is a too-soon repeat: the same running command as
\* the last one published, less than 2.0 s after it.
TooSoon ==
  /\ MatchedIdx' = last_command_num
  /\ MatchedIdx' < 6
  /\ now - last_command_ts < 2 * MsPerSec

\* C4 as stated: every accepted event whose text holds a phrase of the
\* vocabulary as a whole word publishes exactly one message, that of the
\* highest index among the phrases it holds, unless it is a too-soon repeat.
C4_OnePerMatch ==
  [][(Handling /\ Accepted' /\ MatchedIdx' > -1)
       => IF TooSoon
            THEN sent' = <<>>
            ELSE sent' = <<VoiceMsg(MatchedIdx')>> /\ last_command_num' = MatchedIdx']_vars

\* C4, amended: the same for every accepted event whose text holds a phrase
\* of the vocabulary and neither the whole word exit nor quit.
C4_OnePerMatchNoQuit ==
  [][(Handling /\ Matched')
       => IF TooSoon
            THEN sent' = <<>>
            ELSE sent' = <<VoiceMsg(MatchedIdx')>> /\ last_command_num' = MatchedIdx']_vars

\* An accepted event whose text holds two phrases of the vocabulary was
\* handled, and the message of the higher index was the one published.
C4_Witness ==
  /\ Matched
  /\ Cardinality(text_phrases[ev.text]) > 1
  /\ sent = <<VoiceMsg(MatchedIdx)>>
  /\ last_command_num = MatchedIdx
  /\ \E i \in text_phrases[ev.text] : i < MatchedIdx

\* C5: an event with is_final false and stability 0 publishes nothing, raises
\* no close signal and leaves last_command_num and last_command_ts as they
\* were, whatever its text.
C5_InterimIgnored ==
  [][(Handling /\ ev'.kind = "result" /\ ~ev'.is_final /\ ev'.stability = 0)
       => (sent' = <<>> /\ UNCHANGED <<pc, closed, last_command_ts, last_command_num>>)]_vars

\* Such an event was handled in a running session; its text held quit and a
\* phrase of the vocabulary.
C5_Witness ==
  /\ ev.kind = "result"
  /\ ~ev.is_final
  /\ ev.stability = 0
  /\ text_quit[ev.text]
  /\ text_idx[ev.text] > -1
  /\ pc = "listen"
  /\ ~closed
  /\ sent = <<>>

\* C6: an accepted event whose text holds the whole word exit or quit marks
\* the stream closed, publishes nothing, and ends listen_print_loop, so that
\* no later response of that call is handled.
C6_QuitCloses ==
  [][(Handling /\ QuitHandled')
       => (closed' /\ sent' = <<>> /\ pc' = "loop"
           /\ UNCHANGED <<last_command_ts, last_command_num>>)]_vars

\* A transcript with quit and a phrase of the vocabulary was handled: the
\* stream is marked closed, nothing was published, the loop has returned.
C6_Witness ==
  /\ QuitHandled
  /\ text_idx[ev.text] > -1
  /\ closed
  /\ sent = <<>>
  /\ pc = "loop"


\* The budget of the stream's clock is used up.
Expired == now - start_time > 55000

\* A session is running and its generator has not ended.
Running == pc = "listen" /\ gen.pc \in {"check", "get", "drain"}

\* C7: when the elapsed time of a running session exceeds 55000 ms, a new
\* session is eventually running on a clock that has been reset.  (The
\* session is the only one whose generator lives, and a chunk is there or
\* still to come if its generator waits for one.)
C7_RolloverRestarts ==
  (Running /\ Expired /\ zombies = <<>>
     /\ (gen.pc = "get" => (buff # <<>> \/ nprod < MaxChunks)))
    ~> (Running /\ ~Expired)

\* A new session has started on the stream of a session that hit the limit:
\* the stream was constructed more than 55000 ms before, its clock was reset
\* later by the generator of the session that ended, and it is a stream that
\* has forwarded audio.
C7_Witness ==
  /\ pc = "listen"
  /\ gen = NewGen
  /\ ~Expired
  /\ now - born > 55000
  /\ start_time > born
  /\ reset_by = "session"
  /\ fwd # <<>>

\* C8: the audio forwarded to the service over the sessions of one stream is
\* the captured sequence in order: nothing twice, nothing out of order,
\* nothing left out.
C8_ForwardedInOrder == \A i \in DOMAIN fwd : fwd[i] = i

\* C9: an error raised in a session is caught in main() and followed by a
\* new session attempt: the loop constructs and enters a new stream.
C9_ErrorRestarts == exc ~> (pc = "enter" /\ ~exc)

\* A new stream is being entered after a failed device open was caught.
C9_Witness == pc = "enter" /\ ~exc /\ leaked > 0

\* C10: at most one stream holds microphone resources: a new one is opened
\* only when the previous one has released its audio stream and interface.
C10_OneHolder ==
  leaked + (IF audio_interface = "open" THEN 1 ELSE 0) <= 1

\* The sentinel of __exit__ has been put and taken, and capture has stopped:
\* nothing will be put on the queue of this stream again.
Drained ==
  /\ pc \in {"exit_term", "new", "except"}
  /\ audio_stream = "closed"
  /\ buff = <<>>

\* A request generator waits in the blocking get().
Waiting == gen.pc = "get" \/ \E i \in DOMAIN zombies : zombies[i].pc = "get"

\* C11: once a stream is closed (capture stopped, sentinel put), every
\* consumer blocked on its queue gets the sentinel and finishes: no consumer
\* is left waiting on a queue that nothing will be put on again.
C11_ConsumersFinish == Drained => ~Waiting

\* C12: the queue between the capture callback and the consumer has a fixed
\* capacity: however many chunks the microphone delivers while no consumer
\* pulls (MaxChunks of them here), the queue holds fewer.
C12_QueueBounded == Len(buff) < MaxChunks

\* The transcript "Go Fast" of the catalogue.
GoFastText == 2

\* The event handled last is a too-soon repeat of the command published
\* before it.
WasTooSoon ==
  /\ ev.prev_num = MatchedIdx
  /\ MatchedIdx < 6
  /\ ev.at - ev.prev_ts < 2 * MsPerSec

\* C13: every published message is a mapping with the single key handheld,
\* whose value is the entry of command_dicts at the matched index; a final
\* "go fast" that is not suppressed publishes
\* {"handheld": {"move": {"speed": 1.0, "duration": 7200.0, "distance": 0.0}}}.
C13_MessageShape ==
  /\ \A i \in DOMAIN sent :
       /\ MatchedIdx > -1
       /\ DOMAIN sent[i] = {"handheld"}
       /\ sent[i].handheld = command_dicts[MatchedIdx + 1]
  /\ (Accepted /\ ev.is_final /\ ev.text = GoFastText /\ ~WasTooSoon)
       => sent = <<[handheld |-> Move(10, 72000, 0)]>>

\* A final "Go Fast" was handled and its message published.
C13_Witness ==
  /\ ev.kind = "result"
  /\ ev.is_final
  /\ ev.text = GoFastText
  /\ Len(sent) = 1
  /\ sent[1].handheld.speed = 10
  /\ sent[1].handheld.duration = 72000

\* C14: a matched command whose index differs from last_command_num is
\* published at once, whatever the time since the last publication.
C14_DistinctPublished ==
  [][(Handling /\ Matched' /\ MatchedIdx' # last_command_num)
       => (sent' = <<VoiceMsg(MatchedIdx')>> /\ last_command_num' = MatchedIdx')]_vars

\* A running command was published less than 2.0 s after another running
\* command had been: go slow (index 3) right after go fast (index 4).
C14_Witness ==
  /\ Matched
  /\ MatchedIdx = 3
  /\ ev.prev_num = 4
  /\ ev.at - ev.prev_ts < 2 * MsPerSec
  /\ ev.prev_ts > 0
  /\ sent = <<VoiceMsg(3)>>

\* C15: last_command_num and last_command_ts change only when a command is
\* published: an event that publishes nothing (suppressed match, no match,
\* not accepted, quit, malformed) leaves both as they were, and an event
\* that publishes sets them to the index published and the current time.
C15_StateOnlyOnPublish ==
  [][Handling =>
       IF sent' = <<>>
         THEN UNCHANGED <<last_command_num, last_command_ts>>
         ELSE last_command_num' = MatchedIdx' /\ last_command_ts' = now]_vars

\* A running command was matched again exactly 2.0 s after its last
\* publication and was published, which restarts the window.
C15_Witness ==
  /\ Matched
  /\ MatchedIdx < 6
  /\ ev.prev_num = MatchedIdx
  /\ ev.at - ev.prev_ts = 2 * MsPerSec
  /\ sent = <<VoiceMsg(MatchedIdx)>>
  /\ last_command_ts = ev.at

\* C16: the repeat-suppression state survives every session boundary: no
\* step other than the handling of a response changes last_command_num or
\* last_command_ts (the end of a session, __exit__, a new stream object, a
\* new session), and a running command matched less than 2.0 s after its
\* last publication is suppressed in whatever session the match falls.
C16_StateSurvives ==
  [][/\ ~Handling => UNCHANGED <<last_command_num, last_command_ts>>
     /\ (Handling /\ Matched' /\ MatchedIdx' < 6 /\ MatchedIdx' = last_command_num
           /\ now - last_command_ts < 2 * MsPerSec)
          => sent' = <<>>]_vars

\* "go slow" was suppressed in the first session of a stream constructed
\* after an error: its last publication was before the construction of the
\* stream, this match after it, less than 2.0 s after that publication.
C16_Witness ==
  /\ Matched
  /\ MatchedIdx < 6
  /\ ev.prev_num = MatchedIdx
  /\ ev.at - ev.prev_ts < 2 * MsPerSec
  /\ sent = <<>>
  /\ ev.prev_ts < born
  /\ born < ev.at
  /\ pc = "listen"

\* The step ends the running session and leaves the stream open for the
\* next one: its generator stops at the streaming limit, or its call ends
\* while the generator is still running.
SessionEnds ==
  /\ pc = "listen"
  /\ ~closed'
  /\ \/ gen.pc = "check" /\ gen'.pc = "done"
     \/ pc' = "loop" /\ gen.pc # "done"

\* C17: the budget clock of a session starts at its entry: when a session
\* ends and the next one is to run on the same stream, start_time is not
\* earlier than that moment, and a new stream object starts its clock at its
\* construction; start_time never goes back.
C17_ClockFromEntry ==
  [][/\ SessionEnds => start_time' >= now
     /\ (pc = "new" /\ pc' = "enter") => start_time' >= now
     /\ start_time' >= start_time]_vars

\* C18: a response with no results, or whose first result has no
\* alternatives, is skipped: it publishes nothing, raises neither a close
\* signal nor an error, leaves last_command_num and last_command_ts, and
\* listen_print_loop goes on with the next response.
C18_MalformedSkipped ==
  [][(Handling /\ ev'.kind \in {"noresults", "noalternatives"})
       => (sent' = <<>> /\ pc' = "listen"
           /\ UNCHANGED <<exc, closed, last_command_num, last_command_ts>>)]_vars

\* A response whose first result has no alternatives was handled after a
\* command had been published: the loop still runs and the command state is
\* that of the publication.
C18_Witness ==
  /\ ev.kind = "noalternatives"
  /\ pc = "listen"
  /\ ~exc
  /\ ~closed
  /\ sent = <<>>
  /\ last_command_num > -1
  /\ last_command_num = ev.prev_num

\* The step takes the sentinel off the queue.
TakesSentinel ==
  /\ buff # <<>>
  /\ Head(buff) = None
  /\ buff' = Tail(buff)
  /\ pc' = pc

\* C19: the generator that takes the sentinel off the queue ends and yields
\* nothing, so that nothing is forwarded by that step; and the sentinel is
\* the last item on the queue whenever it is there.
C19_SentinelEnds ==
  [][/\ TakesSentinel =>
          /\ fwd' = fwd
          /\ \/ gen.pc \in {"get", "drain"} /\ gen'.pc = "done" /\ zombies' = zombies
             \/ gen' = gen /\ Len(zombies') = Len(zombies) - 1
     /\ \A i \in DOMAIN buff' : buff'[i] = None => i = Len(buff')]_vars

\* The generator of the session met the sentinel while it was filling a
\* batch: it has ended holding a chunk that was captured and never forwarded,
\* and the queue is empty.
C19_Witness ==
  /\ gen.pc = "done"
  /\ gen.data # <<>>
  /\ \A i \in DOMAIN fwd : fwd[i] # gen.data[1]
  /\ buff = <<>>
  /\ audio_stream = "closed"

\* The step is a poll of the listener.
Polls == Len(printed') > Len(printed)

\* C20: the listener keeps at most one pending message, the latest: a poll
\* prints one line, which is the message received last since the poll before
\* if there is one, and the report that none was received otherwise; no
\* message is printed twice.
C20_LatestOncePerPoll ==
  [][/\ Len(sock_read') <= 1
     /\ Polls =>
          /\ Len(printed') = Len(printed) + 1
          /\ printed'[Len(printed')] = (IF received > polled THEN received ELSE NoMessage)
          /\ \A i, j \in DOMAIN printed' :
               (i < j /\ printed'[i] # NoMessage) => printed'[i] # printed'[j]]_vars

\* Two messages arrived between two polls: the second was printed, the first
\* never was, and a poll with nothing pending had reported none.
C20_Witness ==
  /\ received >= 2
  /\ printed # <<>>
  /\ printed[Len(printed)] = received
  /\ \A i \in DOMAIN printed : printed[i] # received - 1
  /\ \E i \in DOMAIN printed : printed[i] = NoMessage
  /\ sock_read = <<>>

====
